---------------------------- MODULE Spec2Model ----------------------------
(***************************************************************************)
(* Model of backend/server.py of the AktienPortfolio tracker: the trade    *)
(* ledger (db.trades), the watchlist (db.watchlist), the handlers that     *)
(* mutate them and the portfolio / summary queries computed from them.     *)
(*                                                                         *)
(* Numbers.  quantity and price are Python floats (TradeCreate, lines      *)
(* 72-77), so every +=, -=, * and / of get_portfolio rounds its result.    *)
(* The model keeps that rounding: a float is an integer count of units of  *)
(* 2^-FracBits, and every arithmetic result is rounded to the nearest      *)
(* value with a Precision-bit significand, ties to even (IEEE 754, with    *)
(* binary64's 53 bits scaled down to Precision).                           *)
(*                                                                         *)
(* Strings.  symbol.upper() and trade_type.lower() are modelled on the     *)
(* finite alphabets of symbols and trade types the model's requests use.   *)
(***************************************************************************)
EXTENDS Integers, Sequences, FiniteSets, TLC

VARIABLES
    trades,      \* db.trades: the stored Trade documents, in insertion order
    watchlist,   \* db.watchlist: the stored WatchlistItem documents
    pending,     \* add_to_watchlist requests suspended between find_one and insert_one
    resp,        \* the response of the request served last
    user_sessions,  \* db.user_sessions: the stored UserSession documents
    now,         \* datetime.now(timezone.utc), in units of the session lifetime
    issued       \* how many tokens create_session_token has returned

\* The state of authentication, which the ledger and watchlist handlers
\* leave alone.
auth == <<user_sessions, now, issued>>

vars == <<trades, watchlist, pending, resp, user_sessions, now, issued>>

---------------------------------------------------------------------------
(* Bounds of the model *)

Precision == 3        \* significand bits of a float (53 in CPython)
FracBits == 2         \* a float is a multiple of 2^-FracBits
ToListLimit == 4      \* the length given to to_list() (1000 in the source), scaled
MaxTrades == 3        \* stored trades, specification Spec
MaxLedger == 5        \* stored trades, specification SpecLedger
MaxStoreTrades == 2   \* stored trades, specification SpecStore
MaxWatch == 2         \* watchlist items stored or being added, SpecStore
MaxSessions == 2      \* stored sessions and tokens issued, specification SpecAuth
MaxClock == 1         \* session lifetimes that pass, specification SpecAuth

---------------------------------------------------------------------------
(* Python float arithmetic *)

RECURSIVE Pow2(_)
Pow2(n) == IF n = 0 THEN 1 ELSE 2 * Pow2(n - 1)

Scale == Pow2(FracBits)

\* Significands are below 2^Precision.
SignificandLimit == Pow2(Precision)

Abs(x) == IF x < 0 THEN -x ELSE x

\* The spacing 2^k of the floats around a / den: the least power of two q
\* for which a / (den * q) has at most Precision significant bits.
RECURSIVE Quantum(_, _, _)
Quantum(a, den, q) ==
    IF a < SignificandLimit * q * den THEN q ELSE Quantum(a, den, 2 * q)

\* a / d (a >= 0, d > 0) rounded to the nearest integer, ties to even.
RoundHalfEven(a, d) ==
    IF (2 * (a % d) > d) \/ (2 * (a % d) = d /\ (a \div d) % 2 = 1)
    THEN (a \div d) + 1
    ELSE a \div d

\* a / den (a >= 0, den > 0) rounded to the nearest multiple of q.
RoundTo(a, den, q) == RoundHalfEven(a, den * q) * q

\* num / den (den > 0, in units) rounded to the nearest float.
RoundPos(num, den) ==
    IF num < 0
    THEN -RoundTo(-num, den, Quantum(-num, den, 1))
    ELSE RoundTo(num, den, Quantum(num, den, 1))

RoundRat(num, den) == IF den < 0 THEN RoundPos(-num, -den) ELSE RoundPos(num, den)

FAdd(x, y) == RoundRat(x + y, 1)
FSub(x, y) == RoundRat(x - y, 1)
FMul(x, y) == RoundRat(x * y, Scale)
FDiv(x, y) == RoundRat(x * Scale, y)

Hundred == 100 * Scale

\* sum(...) over a sequence of floats: a left fold of + from 0.
RECURSIVE FSum(_)
FSum(xs) ==
    IF xs = <<>> THEN 0 ELSE FAdd(FSum(SubSeq(xs, 1, Len(xs) - 1)), xs[Len(xs)])

---------------------------------------------------------------------------
(* str.upper() and str.lower() on the model's alphabets *)

upper(s) ==
    CASE s = "aapl" -> "AAPL"
      [] s = "msft" -> "MSFT"
      [] OTHER -> s

lower(t) ==
    CASE t = "BUY" -> "buy"
      [] t = "Buy" -> "buy"
      [] t = "SELL" -> "sell"
      [] t = "Sell" -> "sell"
      [] t = "HOLD" -> "hold"
      [] OTHER -> t

Users == {"alice", "bob"}
Symbols == {"AAPL", "MSFT"}


---------------------------------------------------------------------------
(* The ledger store and the position aggregation of get_portfolio *)

\* uuid.uuid4(): an id that no stored trade carries.
FreshId(store) ==
    CHOOSE i \in 1..(Len(store) + 1) :
        /\ \A k \in 1..Len(store) : store[k].id # i
        /\ \A j \in 1..(i - 1) : \E k \in 1..Len(store) : store[k].id = j

OwnTrades(store, u) == SelectSeq(store, LAMBDA t : t.user_id = u)

Take(s, n) == IF Len(s) <= n THEN s ELSE SubSeq(s, 1, n)

\* A faulty variant of FetchTrades: the query forgets the user_id filter.
FetchTradesOfAnyone(store, u) == Take(store, ToListLimit)

\* db.trades.find({"user_id": user.id}).to_list(<limit>): the owner's trades
\* in store order, cut off at the length given to to_list.
FetchTrades(store, u) == Take(OwnTrades(store, u), ToListLimit)

Front(s) == SubSeq(s, 1, Len(s) - 1)

ZeroPosition == [total_quantity |-> 0, total_cost |-> 0]

\* "if symbol not in positions: positions[symbol] = {0, 0}"
Upsert(positions, symbol) ==
    IF symbol \in DOMAIN positions
    THEN positions
    ELSE positions @@ (symbol :> ZeroPosition)

\* The buy / sell branches of the loop body, for a trade t of cost
\* quantity * price; any other trade_type changes nothing.
Accumulate(positions, t, cost) ==
    IF lower(t.trade_type) = "buy"
    THEN [positions EXCEPT ![t.symbol] =
             [total_quantity |-> FAdd(@.total_quantity, t.quantity),
              total_cost |-> FAdd(@.total_cost, cost)]]
    ELSE IF lower(t.trade_type) = "sell"
    THEN [positions EXCEPT ![t.symbol] =
             [total_quantity |-> FSub(@.total_quantity, t.quantity),
              total_cost |-> FSub(@.total_cost, cost)]]
    ELSE positions

\* One pass of the loop body of get_portfolio over trade t.
ApplyTrade(positions, t) ==
    Accumulate(Upsert(positions, t.symbol), t, FMul(t.quantity, t.price))

\* positions after the loop over the fetched trades ts, first to last.
RECURSIVE Aggregate(_)
Aggregate(ts) ==
    IF ts = <<>> THEN <<>> ELSE ApplyTrade(Aggregate(Front(ts)), ts[Len(ts)])

AppendNew(order, s) ==
    IF \E i \in 1..Len(order) : order[i] = s THEN order ELSE Append(order, s)

\* The keys of the positions dict in insertion order: each symbol at its
\* first trade.
RECURSIVE SymbolOrder(_)
SymbolOrder(ts) ==
    IF ts = <<>> THEN <<>>
    ELSE AppendNew(SymbolOrder(Front(ts)), ts[Len(ts)].symbol)

\* active_positions: the keys whose total_quantity > 0, in dict order.
ActiveOf(order, positions) ==
    SelectSeq(order, LAMBDA s : positions[s].total_quantity > 0)

ActiveSymbols(ts) == ActiveOf(SymbolOrder(ts), Aggregate(ts))

Range(s) == {s[i] : i \in 1..Len(s)}

---------------------------------------------------------------------------
(* The quote provider and the valuation of get_portfolio *)

NoneQuote == [kind |-> "none", current_price |-> 0]
Quote(p) == [kind |-> "quote", current_price |-> p]

\* What get_stock_data(symbols) can return for the given prices: a dict
\* that holds, for each requested symbol, a quote (history found), None (the
\* fetch raised) or no key at all (empty history).
StockDataResults(symbols, prices) ==
    UNION {[S -> {NoneQuote} \cup {Quote(p) : p \in prices}] : S \in SUBSET symbols}

\* stock_data.get(symbol)
Get(stock_data, symbol) ==
    IF symbol \in DOMAIN stock_data THEN stock_data[symbol] ELSE NoneQuote

\* "if current_data:" a quote dict is truthy, None is not.
Truthy(current_data) == current_data.kind = "quote"

PnlPercentage(pnl, cost_basis) ==
    IF cost_basis # 0 THEN FMul(FDiv(pnl, cost_basis), Hundred) ELSE 0

Portfolio(symbol, total_quantity, avg_price, current_price, market_value, pnl, cost_basis) ==
    [symbol |-> symbol,
     total_quantity |-> total_quantity,
     avg_price |-> avg_price,
     current_price |-> current_price,
     market_value |-> market_value,
     pnl |-> pnl,
     pnl_percentage |-> PnlPercentage(pnl, cost_basis)]

Valued(symbol, position, avg_price, current_price, market_value) ==
    Portfolio(symbol, position.total_quantity, avg_price, current_price,
              market_value, FSub(market_value, position.total_cost),
              position.total_cost)

\* The Portfolio object built for one active position with a quote.
Entry(symbol, position, current_data) ==
    Valued(symbol, position,
           IF position.total_quantity # 0
           THEN FDiv(position.total_cost, position.total_quantity)
           ELSE 0,
           current_data.current_price,
           FMul(position.total_quantity, current_data.current_price))

\* The loop over active_positions.items(): an entry is appended for each
\* active symbol whose quote is truthy.
RECURSIVE PortfolioEntries(_, _, _)
PortfolioEntries(active, positions, stock_data) ==
    IF active = <<>> THEN <<>>
    ELSE IF Truthy(Get(stock_data, active[Len(active)]))
    THEN Append(PortfolioEntries(Front(active), positions, stock_data),
                Entry(active[Len(active)], positions[active[Len(active)]],
                      Get(stock_data, active[Len(active)])))
    ELSE PortfolioEntries(Front(active), positions, stock_data)

\* A faulty variant of Valuation: one missing quote fails the whole valuation.
ValuationAllOrNothing(active, positions, stock_data) ==
    IF \E i \in 1..Len(active) : ~Truthy(Get(stock_data, active[i]))
    THEN <<>>
    ELSE PortfolioEntries(active, positions, stock_data)

\* "if not active_positions: return []", else the loop.
Valuation(active, positions, stock_data) ==
    IF active = <<>> THEN <<>> ELSE PortfolioEntries(active, positions, stock_data)

Positions(order, positions, stock_data) ==
    Valuation(ActiveOf(order, positions), positions, stock_data)

\* What get_portfolio computes from the fetched trades ts and the answer
\* stock_data of get_stock_data.
PortfolioOf(ts, stock_data) == Positions(SymbolOrder(ts), Aggregate(ts), stock_data)

\* The list get_portfolio returns for user u.
GetPortfolioBody(store, u, stock_data) == PortfolioOf(FetchTrades(store, u), stock_data)

\* [p.market_value for p in portfolio]
MarketValues(portfolio) ==
    [i \in 1..Len(portfolio) |-> portfolio[i].market_value]

\* [p.total_quantity * p.avg_price for p in portfolio]
Costs(portfolio) ==
    [i \in 1..Len(portfolio) |->
        FMul(portfolio[i].total_quantity, portfolio[i].avg_price)]

ZeroSummary ==
    [total_value |-> 0, total_cost |-> 0, total_pnl |-> 0,
     total_pnl_percentage |-> 0, positions_count |-> 0]

Summary(total_value, total_cost, total_pnl, positions_count) ==
    [total_value |-> total_value,
     total_cost |-> total_cost,
     total_pnl |-> total_pnl,
     total_pnl_percentage |-> PnlPercentage(total_pnl, total_cost),
     positions_count |-> positions_count]

Totals(total_value, total_cost, positions_count) ==
    Summary(total_value, total_cost, FSub(total_value, total_cost), positions_count)

\* The record get_portfolio_summary builds from the list of get_portfolio.
SummaryOf(portfolio) ==
    IF portfolio = <<>> THEN ZeroSummary
    ELSE Totals(FSum(MarketValues(portfolio)), FSum(Costs(portfolio)),
                Len(portfolio))

---------------------------------------------------------------------------
(* The handlers.  user is the User that require_auth resolved. *)

NoBody == <<>>
NoQuotes == <<>>

Response(op, u, arg, status, body, quotes) ==
    [op |-> op, user |-> u, arg |-> arg, status |-> status,
     body |-> body, quotes |-> quotes]

\* delete_many(filter): the store without the documents at the indices hits
\* that the filter matches.
RECURSIVE DeleteMany(_, _)
DeleteMany(store, hits) ==
    IF store = <<>> THEN <<>>
    ELSE IF Len(store) \in hits
    THEN DeleteMany(Front(store), hits)
    ELSE Append(DeleteMany(Front(store), hits), store[Len(store)])

\* delete_one(filter): the store without the first document that matches.
DeleteOne(store, hits) ==
    IF hits = {} THEN store
    ELSE DeleteMany(store, {CHOOSE i \in hits : \A j \in hits : i <= j})

\* POST /trades
create_trade(u, symbol, quantity, price, trade_type) ==
    LET trade_obj == [id |-> FreshId(trades),
                      user_id |-> u,
                      symbol |-> upper(symbol),
                      quantity |-> quantity,
                      price |-> price,
                      trade_type |-> trade_type]
    IN  /\ trades' = Append(trades, trade_obj)
        /\ resp' = Response("create_trade", u, symbol, 200, trade_obj, NoQuotes)
        /\ UNCHANGED <<watchlist, pending, auth>>

\* A faulty variant of delete_trade: the filter forgets user_id.
delete_trade_of_anyone(u, trade_id) ==
    LET after == DeleteOne(trades,
                     {i \in 1..Len(trades) : trades[i].id = trade_id})
        deleted_count == Len(trades) - Len(after)
    IN  /\ trades' = after
        /\ resp' = Response("delete_trade", u, trade_id,
                            IF deleted_count = 0 THEN 404 ELSE 200,
                            NoBody, NoQuotes)
        /\ UNCHANGED <<watchlist, pending, auth>>

\* DELETE /trades/{trade_id}
delete_trade(u, trade_id) ==
    LET after == DeleteOne(trades,
                     {i \in 1..Len(trades) :
                         trades[i].id = trade_id /\ trades[i].user_id = u})
        deleted_count == Len(trades) - Len(after)
    IN  /\ trades' = after
        /\ resp' = Response("delete_trade", u, trade_id,
                            IF deleted_count = 0 THEN 404 ELSE 200,
                            NoBody, NoQuotes)
        /\ UNCHANGED <<watchlist, pending, auth>>

\* The symbols get_portfolio passes to get_stock_data.
Requested(u) == Range(ActiveSymbols(FetchTrades(trades, u)))

\* GET /portfolio.  stock_data is what get_stock_data returns to this
\* request: it is called for the symbols of the active positions, if any.
get_portfolio(u, prices) ==
    \E stock_data \in StockDataResults(Requested(u), prices) :
        /\ resp' = Response("get_portfolio", u, "", 200,
                            GetPortfolioBody(trades, u, stock_data), stock_data)
        /\ UNCHANGED <<trades, watchlist, pending, auth>>

\* A faulty variant of close_position: delete_one in place of delete_many.
close_position_delete_one(u, symbol) ==
    LET after == DeleteOne(trades,
                     {i \in 1..Len(trades) :
                         trades[i].symbol = upper(symbol) /\ trades[i].user_id = u})
        deleted_count == Len(trades) - Len(after)
    IN  /\ trades' = after
        /\ resp' = IF deleted_count = 0
                   THEN Response("close_position", u, symbol, 404, NoBody, NoQuotes)
                   ELSE Response("close_position", u, symbol, 200,
                                 [symbol |-> upper(symbol),
                                  trades_deleted |-> deleted_count], NoQuotes)
        /\ UNCHANGED <<watchlist, pending, auth>>

\* DELETE /portfolio/{symbol}
close_position(u, symbol) ==
    LET after == DeleteMany(trades,
                     {i \in 1..Len(trades) :
                         trades[i].symbol = upper(symbol) /\ trades[i].user_id = u})
        deleted_count == Len(trades) - Len(after)
    IN  /\ trades' = after
        /\ resp' = IF deleted_count = 0
                   THEN Response("close_position", u, symbol, 404, NoBody, NoQuotes)
                   ELSE Response("close_position", u, symbol, 200,
                                 [symbol |-> upper(symbol),
                                  trades_deleted |-> deleted_count], NoQuotes)
        /\ UNCHANGED <<watchlist, pending, auth>>

\* GET /portfolio/summary
get_portfolio_summary(u, prices) ==
    \E stock_data \in StockDataResults(Requested(u), prices) :
        /\ resp' = Response("get_portfolio_summary", u, "", 200,
                            SummaryOf(GetPortfolioBody(trades, u, stock_data)),
                            stock_data)
        /\ UNCHANGED <<trades, watchlist, pending, auth>>

InWatchlist(store, u, symbol) ==
    \E i \in 1..Len(store) : store[i].symbol = symbol /\ store[i].user_id = u

\* POST /watchlist, up to "await db.watchlist.find_one": a request that finds
\* the symbol is answered 400; one that does not goes on to the insert.
add_to_watchlist_find(u, symbol) ==
    IF InWatchlist(watchlist, u, upper(symbol))
    THEN /\ resp' = Response("add_to_watchlist", u, symbol, 400, NoBody, NoQuotes)
         /\ UNCHANGED <<trades, watchlist, pending, auth>>
    ELSE /\ pending' = Append(pending, [user_id |-> u, symbol |-> upper(symbol)])
         /\ UNCHANGED <<trades, watchlist, resp, auth>>

\* POST /watchlist, from "await db.watchlist.insert_one" on, for the i-th
\* suspended request.
add_to_watchlist_insert(i) ==
    /\ i \in 1..Len(pending)
    /\ watchlist' = Append(watchlist, pending[i])
    /\ pending' = SubSeq(pending, 1, i - 1) \o SubSeq(pending, i + 1, Len(pending))
    /\ resp' = Response("add_to_watchlist", pending[i].user_id, pending[i].symbol,
                        200, pending[i], NoQuotes)
    /\ UNCHANGED <<trades, auth>>

\* DELETE /watchlist/{symbol}
remove_from_watchlist(u, symbol) ==
    LET after == DeleteOne(watchlist,
                     {i \in 1..Len(watchlist) :
                         watchlist[i].symbol = upper(symbol)
                             /\ watchlist[i].user_id = u})
        deleted_count == Len(watchlist) - Len(after)
    IN  /\ watchlist' = after
        /\ resp' = Response("remove_from_watchlist", u, symbol,
                            IF deleted_count = 0 THEN 404 ELSE 200,
                            NoBody, NoQuotes)
        /\ UNCHANGED <<trades, pending, auth>>

---------------------------------------------------------------------------
(* Sessions: get_current_user, login, google_auth, logout *)

\* A session token made by create_session_token (the n-th uuid4), and the
\* session token the OAuth service answers with.
Uuid(n) == [src |-> "uuid4", n |-> n]
GoogleToken == [src |-> "google", n |-> 0]

\* A cookie or Authorization header that the request does not carry, and
\* one whose value is the empty string.
Absent == [src |-> "absent", n |-> 0]
Empty == [src |-> "empty", n |-> 0]

\* get_current_user returning None.
NoUser == ""

\* "if not token", "credentials and credentials.credentials", "if token".
TruthyToken(t) == t \notin {Absent, Empty}

\* The token get_current_user takes from the request: the cookie when the
\* request has one, whatever its value, else the Authorization header.
RequestToken(cookie, header) ==
    IF cookie # Absent THEN cookie
    ELSE IF TruthyToken(header) THEN header
    ELSE Absent

\* The documents find_one({"session_token": token, "expires_at": {"$gt": now}})
\* matches.
LiveSessions(sessions, clock, token) ==
    {i \in 1..Len(sessions) :
        sessions[i].session_token = token /\ sessions[i].expires_at > clock}

\* The user of the first session in hits; every user_id of a session is a
\* stored user, so the lookup in db.users finds it.
SessionUser(sessions, hits) ==
    IF hits = {} THEN NoUser
    ELSE sessions[CHOOSE i \in hits : \A j \in hits : i <= j].user_id

\* get_current_user for a request with the given cookie and header.
get_current_user(sessions, clock, cookie, header) ==
    IF ~TruthyToken(RequestToken(cookie, header)) THEN NoUser
    ELSE SessionUser(sessions,
             LiveSessions(sessions, clock, RequestToken(cookie, header)))

\* UserSession(...) with expires_at = now + timedelta(days=7), one unit.
UserSession(u, session_token, clock) ==
    [user_id |-> u, session_token |-> session_token, expires_at |-> clock + 1]

Credentials(cookie, header) == [cookie |-> cookie, header |-> header]

\* POST /auth/login by user u; password_ok is the outcome of the lookup of
\* the email and of verify_password.
login(u, password_ok) ==
    IF ~password_ok
    THEN /\ resp' = Response("login", u, "", 401, NoBody, NoQuotes)
         /\ UNCHANGED <<trades, watchlist, pending, auth>>
    ELSE /\ user_sessions' = Append(user_sessions,
                                    UserSession(u, Uuid(issued + 1), now))
         /\ issued' = issued + 1
         /\ resp' = Response("login", u, "", 200,
                             [session_token |-> Uuid(issued + 1)], NoQuotes)
         /\ UNCHANGED <<trades, watchlist, pending, now>>

\* POST /auth/google; answered tells whether the OAuth service answered the
\* session id, with the email of u and with session_token.
google_auth(u, session_token, answered) ==
    IF ~answered
    THEN /\ resp' = Response("google_auth", u, "", 400, NoBody, NoQuotes)
         /\ UNCHANGED <<trades, watchlist, pending, auth>>
    ELSE /\ user_sessions' = Append(user_sessions,
                                    UserSession(u, session_token, now))
         /\ resp' = Response("google_auth", u, "", 200,
                             [session_token |-> session_token], NoQuotes)
         /\ UNCHANGED <<trades, watchlist, pending, now, issued>>

\* GET /auth/me
get_current_user_info(cookie, header) ==
    /\ resp' = IF get_current_user(user_sessions, now, cookie, header) = NoUser
               THEN Response("get_current_user_info", NoUser,
                             Credentials(cookie, header), 401, NoBody, NoQuotes)
               ELSE Response("get_current_user_info",
                             get_current_user(user_sessions, now, cookie, header),
                             Credentials(cookie, header), 200, NoBody, NoQuotes)
    /\ UNCHANGED <<trades, watchlist, pending, auth>>

\* POST /auth/logout: require_auth, then the session of the cookie's token,
\* if the request has a cookie, is deleted with delete_one.
logout(cookie, header) ==
    IF get_current_user(user_sessions, now, cookie, header) = NoUser
    THEN /\ resp' = Response("logout", NoUser, Credentials(cookie, header),
                             401, NoBody, NoQuotes)
         /\ UNCHANGED <<trades, watchlist, pending, auth>>
    ELSE /\ user_sessions' =
                IF TruthyToken(cookie)
                THEN DeleteOne(user_sessions,
                         {i \in 1..Len(user_sessions) :
                             user_sessions[i].session_token = cookie})
                ELSE user_sessions
         /\ resp' = Response("logout",
                             get_current_user(user_sessions, now, cookie, header),
                             Credentials(cookie, header), 200, NoBody, NoQuotes)
         /\ UNCHANGED <<trades, watchlist, pending, now, issued>>

\* Time passes: datetime.now(timezone.utc) grows by one session lifetime.
Tick ==
    /\ now' = now + 1
    /\ UNCHANGED <<trades, watchlist, pending, resp, user_sessions, issued>>

---------------------------------------------------------------------------
(* Specifications *)

\* An empty database and no request served yet.
Init ==
    /\ trades = <<>>
    /\ watchlist = <<>>
    /\ pending = <<>>
    /\ resp = Response("none", "", "", 0, NoBody, NoQuotes)
    /\ user_sessions = <<>>
    /\ now = 0
    /\ issued = 0

\* The model's prices for quotes, and every dict get_stock_data can return
\* for them.
QuotePrices == {6}
StockData == StockDataResults(Symbols, QuotePrices)

Buy4 == [quantity |-> 4, price |-> 4, trade_type |-> "buy"]
Buy7 == [quantity |-> 7, price |-> 6, trade_type |-> "BUY"]
Sell4 == [quantity |-> 4, price |-> 4, trade_type |-> "Sell"]
Sell7 == [quantity |-> 7, price |-> 6, trade_type |-> "sell"]
Hold4 == [quantity |-> 4, price |-> 4, trade_type |-> "hold"]

\* Spec: positions opened and closed by two users in two symbols, the
\* symbols given in either letter case.
SymbolInputs == {"aapl", "MSFT"}

Next ==
    \/ /\ Len(trades) < MaxTrades
       /\ \E u \in Users, s \in SymbolInputs :
              create_trade(u, s, Buy4.quantity, Buy4.price, Buy4.trade_type)
    \/ \E u \in Users, s \in SymbolInputs : close_position(u, s)

Spec == Init /\ [][Next]_vars

\* SpecValuation: one user's portfolio and summary queries over ledgers of
\* buys and sells in two symbols, under every answer of the quote provider.
NextValuation ==
    \/ /\ Len(trades) < MaxTrades
       /\ \E s \in SymbolInputs, o \in {Buy4, Sell4} :
              create_trade("alice", s, o.quantity, o.price, o.trade_type)
    \/ get_portfolio("alice", QuotePrices)
    \/ get_portfolio_summary("alice", QuotePrices)

SpecValuation == Init /\ [][NextValuation]_vars

\* SpecLedger: one user's ledger in one symbol, long enough to pass the
\* length given to to_list, with quantities and prices whose sums round.
NextLedger ==
    \/ /\ Len(trades) < MaxLedger
       /\ \E o \in {Buy4, Buy7, Sell4, Sell7, Hold4} :
              create_trade("alice", "AAPL", o.quantity, o.price, o.trade_type)
    \/ close_position("alice", "aapl")
    \/ get_portfolio("alice", QuotePrices)
    \/ get_portfolio_summary("alice", QuotePrices)

SpecLedger == Init /\ [][NextLedger]_vars

\* SpecStore: both collections, with the add_to_watchlist requests of one
\* user interleaved at their awaits and the deletes of both users.
StoreTradeIds == 1..MaxStoreTrades

NextStore ==
    \/ /\ Len(trades) < MaxStoreTrades
       /\ \E u \in Users :
              create_trade(u, "aapl", Buy4.quantity, Buy4.price, Buy4.trade_type)
    \/ \E u \in Users, id \in StoreTradeIds : delete_trade(u, id)
    \/ \E u \in Users, s \in SymbolInputs : close_position(u, s)
    \/ /\ Len(watchlist) + Len(pending) < MaxWatch
       /\ add_to_watchlist_find("alice", "aapl")
    \/ \E i \in 1..MaxWatch : add_to_watchlist_insert(i)
    \/ \E u \in Users, s \in SymbolInputs : remove_from_watchlist(u, s)

SpecStore == Init /\ [][NextStore]_vars

\* SpecAuth: logins of two users, the OAuth login of one of them, requests
\* with every cookie and Authorization header, and sessions that expire.
Tokens == {Uuid(n) : n \in 1..MaxSessions} \cup {GoogleToken}
CredentialInputs == {Absent, Empty} \cup Tokens

NextAuth ==
    \/ /\ Len(user_sessions) < MaxSessions
       /\ issued < MaxSessions
       /\ \E u \in Users, password_ok \in BOOLEAN : login(u, password_ok)
    \/ /\ Len(user_sessions) < MaxSessions
       /\ \E answered \in BOOLEAN : google_auth("alice", GoogleToken, answered)
    \/ \E cookie \in CredentialInputs, header \in CredentialInputs :
           get_current_user_info(cookie, header)
    \/ \E cookie \in CredentialInputs, header \in CredentialInputs :
           logout(cookie, header)
    \/ now < MaxClock /\ Tick

SpecAuth == Init /\ [][NextAuth]_vars

---------------------------------------------------------------------------
(* Helpers of the properties *)

Perms(n) == {p \in [1..n -> 1..n] : \A i, j \in 1..n : p[i] = p[j] => i = j}
Permute(ts, p) == [i \in 1..Len(ts) |-> ts[p[i]]]

\* The exact signed quantity of trade t: + for a buy, - for a sell.
SignedQuantity(t) ==
    IF lower(t.trade_type) = "buy" THEN t.quantity
    ELSE IF lower(t.trade_type) = "sell" THEN -t.quantity
    ELSE 0

\* Sum of buy quantities minus sum of sell quantities over ts, for symbol s.
RECURSIVE NetQuantity(_, _)
NetQuantity(ts, s) ==
    IF ts = <<>> THEN 0
    ELSE NetQuantity(Front(ts), s)
         + (IF ts[Len(ts)].symbol = s THEN SignedQuantity(ts[Len(ts)]) ELSE 0)

EntrySymbols(portfolio) == {portfolio[i].symbol : i \in 1..Len(portfolio)}

HasTrade(store, u, s) ==
    \E i \in 1..Len(store) : store[i].user_id = u /\ store[i].symbol = s

---------------------------------------------------------------------------
(* C1 *)

\* C1: position aggregation is order-independent: folding the trades that a
\* user's query fetched in any permutation gives the same mapping
\* symbol -> (total_quantity, total_cost), hence the same open positions.
C1_OrderIndependent ==
    \A u \in Users :
        \A p \in Perms(Len(FetchTrades(trades, u))) :
            Aggregate(Permute(FetchTrades(trades, u), p))
                = Aggregate(FetchTrades(trades, u))

---------------------------------------------------------------------------
(* C2 *)

\* C2: a symbol appears in the owner's portfolio only if its net quantity
\* (buys minus sells over the owner's stored trades) is greater than 0; when
\* no symbol has a positive net quantity the summary counts 0 positions.
C2_OnlyPositiveNet ==
    \A u \in Users, sd \in StockData :
        /\ \A s \in EntrySymbols(GetPortfolioBody(trades, u, sd)) :
               NetQuantity(OwnTrades(trades, u), s) > 0
        /\ (\A s \in Symbols : NetQuantity(OwnTrades(trades, u), s) <= 0)
               => SummaryOf(GetPortfolioBody(trades, u, sd)).positions_count = 0

---------------------------------------------------------------------------
(* C5 *)

\* C5: the summary agrees with the portfolio query on the same trades and
\* quotes: total_value is the sum of the entries' market_value, total_cost is
\* the sum of total_quantity * avg_price and so the sum of the positions'
\* accumulated total_cost, total_pnl is total_value - total_cost and the sum
\* of the entries' pnl, positions_count is the number of entries, and with no
\* entry the summary is the all-zero record.
C5_SummaryConsistent ==
    resp.op = "get_portfolio_summary" =>
        LET entries == GetPortfolioBody(trades, resp.user, resp.quotes)
            positions == Aggregate(FetchTrades(trades, resp.user))
        IN  /\ resp.body.total_value
                   = FSum([i \in 1..Len(entries) |-> entries[i].market_value])
            /\ resp.body.total_cost
                   = FSum([i \in 1..Len(entries) |->
                              FMul(entries[i].total_quantity, entries[i].avg_price)])
            /\ resp.body.total_cost
                   = FSum([i \in 1..Len(entries) |->
                              positions[entries[i].symbol].total_cost])
            /\ resp.body.total_pnl
                   = FSub(resp.body.total_value, resp.body.total_cost)
            /\ resp.body.total_pnl
                   = FSum([i \in 1..Len(entries) |-> entries[i].pnl])
            /\ resp.body.positions_count = Len(entries)
            /\ (entries = <<>> => resp.body = ZeroSummary)

---------------------------------------------------------------------------
(* C7 *)

\* C7: the watchlist is a set per owner: there is at most one WatchlistItem
\* per (owner, symbol), whatever the interleaving of the requests.
C7_WatchlistUnique ==
    \A i, j \in 1..Len(watchlist) :
        (watchlist[i].user_id = watchlist[j].user_id
            /\ watchlist[i].symbol = watchlist[j].symbol) => i = j

---------------------------------------------------------------------------
(* C9 *)

\* C9: every portfolio query folds all of the owner's stored trades: the
\* positions it computes are those of the owner's complete ledger.
C9_FoldsWholeLedger ==
    \A u \in Users :
        Aggregate(FetchTrades(trades, u)) = Aggregate(OwnTrades(trades, u))

---------------------------------------------------------------------------
(* C10 *)

Recognised(t) == lower(t.trade_type) \in {"buy", "sell"}

LowerCased(store) ==
    [i \in 1..Len(store) |-> [store[i] EXCEPT !.trade_type = lower(@)]]

\* C10: trades whose trade_type is neither buy nor sell in any letter case
\* change nothing: the portfolio of a ledger equals the portfolio of the
\* ledger with those trades removed, and equals the portfolio of the ledger
\* with every trade_type put in lower case.
C10_UnknownTypeIgnored ==
    \A u \in Users, sd \in StockData :
        /\ GetPortfolioBody(trades, u, sd)
               = GetPortfolioBody(SelectSeq(trades, Recognised), u, sd)
        /\ GetPortfolioBody(trades, u, sd)
               = GetPortfolioBody(LowerCased(trades), u, sd)

---------------------------------------------------------------------------
(* C3 *)

\* The symbols whose folded total_quantity is positive.
OpenSymbols(ts) ==
    {s \in DOMAIN Aggregate(ts) : Aggregate(ts)[s].total_quantity > 0}

\* The open symbols for which stock_data holds a quote.
QuotedSymbols(ts, stock_data) ==
    {s \in OpenSymbols(ts) :
        s \in DOMAIN stock_data /\ stock_data[s].kind = "quote"}

OnlySymbols(ts, S) == SelectSeq(ts, LAMBDA t : t.symbol \in S)

\* C3: for every quote mapping, with symbols missing or None, the portfolio
\* holds one entry for exactly the open symbols that have a quote; each entry
\* is the one its symbol gets when valued alone, and the portfolio and the
\* summary are those of the ledger without the trades of the other symbols.
C3_QuotedOnly ==
    /\ resp.op = "get_portfolio" =>
           /\ EntrySymbols(resp.body)
                  = QuotedSymbols(FetchTrades(trades, resp.user), resp.quotes)
           /\ Len(resp.body) = Cardinality(EntrySymbols(resp.body))
           /\ resp.body
                  = PortfolioOf(OnlySymbols(FetchTrades(trades, resp.user),
                                            EntrySymbols(resp.body)),
                                resp.quotes)
           /\ \A i \in 1..Len(resp.body) :
                  <<resp.body[i]>>
                      = PortfolioOf(OnlySymbols(FetchTrades(trades, resp.user),
                                                {resp.body[i].symbol}),
                                    resp.quotes)
    /\ resp.op = "get_portfolio_summary" =>
           /\ resp.body.positions_count
                  = Cardinality(QuotedSymbols(FetchTrades(trades, resp.user),
                                              resp.quotes))
           /\ resp.body
                  = SummaryOf(PortfolioOf(
                        OnlySymbols(FetchTrades(trades, resp.user),
                                    QuotedSymbols(FetchTrades(trades, resp.user),
                                                  resp.quotes)),
                        resp.quotes))

\* A portfolio query over two open symbols of which one has a quote and the
\* other is mapped to None: one entry is returned.
C3_Witness ==
    /\ resp.op = "get_portfolio"
    /\ OpenSymbols(FetchTrades(trades, resp.user)) = {"AAPL", "MSFT"}
    /\ DOMAIN resp.quotes = {"AAPL", "MSFT"}
    /\ resp.quotes["AAPL"].kind = "none"
    /\ resp.quotes["MSFT"].kind = "quote"
    /\ Len(resp.body) = 1
    /\ resp.body[1].symbol = "MSFT"

---------------------------------------------------------------------------
(* C4 *)

StoreWithout(store, b) == SelectSeq(store, LAMBDA t : t.user_id # b)

\* A ledger request of user b.
LedgerStepOf(b) ==
    \/ create_trade(b, "aapl", Buy4.quantity, Buy4.price, Buy4.trade_type)
    \/ \E id \in StoreTradeIds : delete_trade(b, id)
    \/ \E s \in SymbolInputs : close_position(b, s)

\* In every state the portfolio and the summary of user a are those of the
\* store without the trades of any other user b.
C4_OwnTradesOnly ==
    \A a \in Users :
        /\ \A b \in Users \ {a}, sd \in StockData :
               /\ GetPortfolioBody(trades, a, sd)
                      = GetPortfolioBody(StoreWithout(trades, b), a, sd)
               /\ SummaryOf(GetPortfolioBody(trades, a, sd))
                      = SummaryOf(GetPortfolioBody(StoreWithout(trades, b), a, sd))
        /\ \A t \in Range(FetchTrades(trades, a)) : t.user_id = a

\* A request of another user b leaves the trades of user a as they were.
C4_OthersStepsKeepOwn ==
    \A a \in Users :
        \A b \in Users \ {a} :
            LedgerStepOf(b) => OwnTrades(trades', a) = OwnTrades(trades, a)

\* C4: ownership isolation: the portfolio and summary of user a are computed
\* from a's trades and the quotes only, and no request of another user
\* changes a's trades, so a's result is what it is without b.
C4_Isolation == [](C4_OwnTradesOnly) /\ [][C4_OthersStepsKeepOwn]_vars

\* Both users hold a trade in AAPL, and bob has just tried to delete
\* alice's trade by its id.
C4_Witness ==
    /\ HasTrade(trades, "alice", "AAPL")
    /\ HasTrade(trades, "bob", "AAPL")
    /\ resp.op = "delete_trade"
    /\ resp.user = "bob"
    /\ \E i \in 1..Len(trades) :
           trades[i].id = resp.arg /\ trades[i].user_id = "alice"

---------------------------------------------------------------------------
(* C6 *)

Matching(store, u, s) ==
    {i \in 1..Len(store) : store[i].user_id = u /\ store[i].symbol = s}

\* After a close_position(u, symbol) that succeeded: no trade of u in the
\* uppercased symbol is stored, every other trade is stored as before,
\* trades_deleted counts the trades that matched, and no portfolio of u has
\* an entry for the symbol.
C6_ClosePost ==
    \A u \in Users, s \in SymbolInputs :
        (close_position(u, s) /\ resp'.status = 200) =>
            /\ Matching(trades', u, upper(s)) = {}
            /\ trades' = SelectSeq(trades,
                   LAMBDA t : ~(t.user_id = u /\ t.symbol = upper(s)))
            /\ resp'.body.trades_deleted = Cardinality(Matching(trades, u, upper(s)))
            /\ resp'.body.trades_deleted > 0
            /\ \A sd \in StockData :
                   upper(s) \notin EntrySymbols(GetPortfolioBody(trades', u, sd))

\* While u has no stored trade in a symbol, u's portfolio has no entry for it.
C6_NoTradeNoEntry ==
    \A u \in Users, s \in Symbols, sd \in StockData :
        ~HasTrade(trades, u, s) =>
            s \notin EntrySymbols(GetPortfolioBody(trades, u, sd))

\* C6: a successful close_position removes all and only the owner's trades
\* in the uppercased symbol and reports their number, and the owner's
\* portfolio has no entry for the symbol until a trade in it is created.
C6_ClosePosition == [](C6_NoTradeNoEntry) /\ [][C6_ClosePost]_vars

\* close_position deleted two trades and left another trade in the store.
C6_Witness ==
    /\ resp.op = "close_position"
    /\ resp.status = 200
    /\ resp.body.trades_deleted = 2
    /\ Len(trades) = 1
    /\ ~HasTrade(trades, resp.user, upper(resp.arg))

---------------------------------------------------------------------------
(* C8 *)

UnchangedStore == trades' = trades /\ watchlist' = watchlist

\* C8: a delete that finds nothing of the caller's answers 404 and deletes
\* no record: delete_trade of an id that is absent or another user's,
\* close_position of a symbol without trades of the caller, and
\* remove_from_watchlist of a symbol not in the caller's watchlist.
C8_NotFoundStep ==
    /\ \A u \in Users, id \in StoreTradeIds :
           (delete_trade(u, id)
               /\ ~\E i \in 1..Len(trades) :
                      trades[i].id = id /\ trades[i].user_id = u)
           => (resp'.status = 404 /\ UnchangedStore)
    /\ \A u \in Users, s \in SymbolInputs :
           (close_position(u, s) /\ ~HasTrade(trades, u, upper(s)))
           => (resp'.status = 404 /\ UnchangedStore)
    /\ \A u \in Users, s \in SymbolInputs :
           (remove_from_watchlist(u, s) /\ ~InWatchlist(watchlist, u, upper(s)))
           => (resp'.status = 404 /\ UnchangedStore)
    /\ \A u \in Users :
           (/\ \/ \E id \in StoreTradeIds : delete_trade(u, id)
               \/ \E s \in SymbolInputs : close_position(u, s)
               \/ \E s \in SymbolInputs : remove_from_watchlist(u, s)
            /\ resp'.status = 404)
           => UnchangedStore

C8_NotFound == [][C8_NotFoundStep]_vars

\* delete_trade was answered 404 for the id of a trade that another user
\* owns, and the trade is still stored.
C8_Witness ==
    /\ resp.op = "delete_trade"
    /\ resp.status = 404
    /\ \E i \in 1..Len(trades) :
           trades[i].id = resp.arg /\ trades[i].user_id # resp.user
    /\ watchlist # <<>>

---------------------------------------------------------------------------
(* C11 *)

\* A logout(cookie, header) request that succeeded leaves the token that
\* authenticated it resolving to no user, in a cookie and in a header.
C11_LogoutStep ==
    \A cookie \in CredentialInputs, header \in CredentialInputs :
        (logout(cookie, header) /\ resp'.status = 200) =>
            /\ get_current_user(user_sessions', now',
                                RequestToken(cookie, header), Absent) = NoUser
            /\ get_current_user(user_sessions', now',
                                Absent, RequestToken(cookie, header)) = NoUser

\* C11: after a logout request succeeds, the session token that
\* authenticated it no longer resolves to a user, whether it was presented
\* in the session_token cookie or in the Authorization header.
C11_LogoutInvalidates == [][C11_LogoutStep]_vars

=============================================================================
